---- MODULE Spec2Model ----
(***************************************************************************)
(* Aya Wallet MCP server: the tools/list and tools/call request handlers   *)
(* of AyaWalletMCPServer (src/src/index.ts), the tool components they      *)
(* route to, and the best-rate reduction of DeFiAggregator.findBestRate.   *)
(*                                                                         *)
(* Spec      the dispatcher of a constructed, connected server handling    *)
(*           one request at a time.                                        *)
(* SpecRate  findBestRate on three quote sources that settle               *)
(*           independently (Promise.allSettled), each with any outcome.    *)
(*                                                                         *)
(* Strings are TLA+ strings, texts are sequences of strings (a template    *)
(* literal is the concatenation of its pieces).  Decimal amounts are       *)
(* integers counted in units of 10^-(ToFixedDigits+1), one digit finer     *)
(* than the precision toFixed(6) keeps.                                    *)
(***************************************************************************)
EXTENDS Integers, Sequences, FiniteSets, TLC

VARIABLES
    connected,   \* the transport is connected and the server serves requests
    logLevel,    \* process.env.LOG_LEVEL as read by every Logger
    served,      \* number of requests handled so far
    request,     \* the request handled last: [id, method, name, args]
    response,    \* the response to it: [id, kind, content, fault]
    outcome,     \* what the routed handler did: [called, invoked, handler, tried]
    answers,     \* what the downstream collaborators answered during that call
    prevFailed,  \* the request before the last one ended in a failure result
    stdout,      \* the lines written to standard output for the last request
    submitted,   \* the transfer the last request submitted to the ledger
    quotes,      \* findBestRate: the three settled quote promises
    rate,        \* findBestRate: what the call produced once joined
    settleOrder, \* findBestRate: the requests settled so far, first to last
    proc,        \* the process: [program, pc, exitCode, error]
    env,         \* process.env, the keys EnvSchema checks
    config,      \* ConfigManager.config: Null until a load succeeds
    configOp     \* the ConfigManager call made last: [op, out, validated]

vars == <<connected, logLevel, served, request, response, outcome, answers,
          prevFailed, stdout, submitted, quotes, rate, settleOrder, proc, env, config, configOp>>

dispatchVars == <<connected, logLevel, served, request, response, outcome, answers,
                  prevFailed, stdout, submitted>>
rateVars == <<quotes, rate, settleOrder>>
startVars == <<proc, env, config, configOp>>

(***************************************************************************)
(* Bounds of the model.                                                    *)
(***************************************************************************)
MaxRequests == 2

(***************************************************************************)
(* JavaScript values.                                                      *)
(***************************************************************************)
\* undefined; in a template literal it prints as the text "undefined".
Undefined == "undefined"

NoFields == <<>>

ArgValue(kind, truthy, fields) == [kind |-> kind, truthy |-> truthy, fields |-> fields]

\* typeof: null and arrays are objects.
JsTypeof(a) ==
    CASE a.kind \in {"null", "array", "mapping"} -> "object"
      [] OTHER -> a.kind

JsTruthy(a) == a.truthy

\* args.key: a missing property, or a property of a non-mapping, is undefined.
Get(a, key) ==
    IF a.kind = "mapping" /\ key \in DOMAIN a.fields THEN a.fields[key] ELSE Undefined

(***************************************************************************)
(* Outcomes of a call: a returned value or a thrown Error with a message.  *)
(***************************************************************************)
NoVal == [none |-> TRUE]

\* raised: the messages of the exceptions raised on the way, caught or not.
\* calls: the downstream requests issued on the way, in order.
Return(v) == [threw |-> FALSE, msg |-> <<>>, val |-> v, raised |-> {}, calls |-> <<>>]
Throw(m) == [threw |-> TRUE, msg |-> m, val |-> NoVal, raised |-> {m}, calls |-> <<>>]

\* An awaited request to a downstream collaborator that ends as o.
Issue(req, o) == [o EXCEPT !.calls = <<req>>]

\* o, reached after what before had already raised and issued.
After(before, o) ==
    [o EXCEPT !.raised = before.raised \cup @, !.calls = before.calls \o @]

BigIntMessage == "Do not know how to serialize a BigInt"

JsString(s) == [t |-> "string", s |-> s]
JsBigInt(s) == [t |-> "bigint", s |-> s]

\* A value that JSON.stringify rejects: the swap transaction's native value.
HasBigInt(v) ==
    /\ "transaction" \in DOMAIN v
    /\ v.transaction.value.t = "bigint"

\* JSON.stringify(value, null, 2).
JSONstringify(v) ==
    IF HasBigInt(v) THEN Throw(<<BigIntMessage>>) ELSE Return([json |-> v])

(***************************************************************************)
(* Logger (src/unnamed/part_002).                                          *)
(***************************************************************************)
LogLevels == <<"debug", "info", "warn", "error">>

IndexOf(level) == CHOOSE i \in 1..Len(LogLevels) : LogLevels[i] = level

shouldLog(level) == IndexOf(level) >= IndexOf(logLevel)

\* The stream a Logger method writes to: debug and info go through
\* console.debug and console.info, which print to standard output; warn and
\* error go through console.warn and console.error, which print to standard
\* error.
ConsoleStream(level) == IF level \in {"debug", "info"} THEN "stdout" ELSE "stderr"

LogLine(level, context) == [kind |-> "log", level |-> level, context |-> context]

\* What one Logger call of the given level adds to the given stream.
Written(level, context, stream) ==
    IF shouldLog(level) /\ ConsoleStream(level) = stream
    THEN <<LogLine(level, context)>> ELSE <<>>

\* formatMessage serialises the data with JSON.stringify; the outcome of a
\* log call is that of the serialisation when the level is enabled.
LoggerCall(level, hasData, data) ==
    IF shouldLog(level) /\ hasData /\ HasBigInt(data)
    THEN Throw(<<BigIntMessage>>)
    ELSE Return(NoVal)

(***************************************************************************)
(* Numbers: parseFloat, toFixed(6).  A number is NaN or a decimal counted  *)
(* in units of 10^-(ToFixedDigits+1).                                      *)
(***************************************************************************)
ToFixedDigits == 6

Unit == 10 ^ (ToFixedDigits + 1)

\* Units in one step of the last digit that toFixed(6) keeps.
Ulp == Unit \div (10 ^ ToFixedDigits)

NaN == [nan |-> TRUE, v |-> 0]
Num(v) == [nan |-> FALSE, v |-> v]

Abs(x) == IF x < 0 THEN -x ELSE x

\* Mutant: the digits beyond the sixth are cut off instead of rounded.
ToFixedTruncates(numer, denom, tieUp) ==
    LET mag == ((Abs(numer) \div denom) \div Ulp) * Ulp
    IN  IF numer < 0 THEN 0 - mag ELSE mag

\* (numer / denom).toFixed(6), as a number of units.  The quotient is rounded to
\* the nearest step; when the decimal value is exactly half-way the result
\* depends on which side the binary double lies (tieUp).
ToFixed(numer, denom, tieUp) ==
    LET a == Abs(numer)
        t == a \div denom
        r == a % denom
        base == (t \div Ulp) * Ulp
        off == t % Ulp
        half == Ulp \div 2
        up == \/ off > half
              \/ off = half /\ r > 0
              \/ off = half /\ r = 0 /\ tieUp
        mag == IF up THEN base + Ulp ELSE base
    IN  IF numer < 0 THEN 0 - mag ELSE mag

(***************************************************************************)
(* DeFiAggregator.findBestRate (src/src/tools/hedera-defi-tools.ts).       *)
(* A quote is [source, out]: out is parseFloat(quote.tokenOut.expectedAmount). *)
(***************************************************************************)
Sources == <<"SaucerSwap", "HeliSwap", "Pangolin">>

Null == [null |-> TRUE]
Pending == [status |-> "pending", value |-> Null]
Rejected == [status |-> "rejected", value |-> Null]
Fulfilled(v) == [status |-> "fulfilled", value |-> v]

Quote(source, out) == [source |-> source, out |-> out]

\* quotes.filter(fulfilled && value).map(value)
IsValidQuote(r) == r.status = "fulfilled" /\ r.value # Null

RECURSIVE validQuotes(_)
validQuotes(settled) ==
    IF settled = <<>> THEN <<>>
    ELSE LET rest == validQuotes(Tail(settled))
         IN  IF IsValidQuote(Head(settled)) THEN <<Head(settled).value>> \o rest
             ELSE rest

\* Mutant: aAmount - bAmount, an ascending sort.
CompareAscending(a, b) ==
    IF a.out.nan \/ b.out.nan THEN 0
    ELSE IF a.out.v > b.out.v THEN 1
    ELSE IF a.out.v < b.out.v THEN -1 ELSE 0

\* The comparator (a, b) => bAmount - aAmount: its sign; NaN compares as 0.
Compare(a, b) ==
    IF a.out.nan \/ b.out.nan THEN 0
    ELSE IF b.out.v > a.out.v THEN 1
    ELSE IF b.out.v < a.out.v THEN -1 ELSE 0

\* Array.prototype.sort is stable: x goes behind every element that does not
\* compare after it.
RECURSIVE InsertQuote(_, _)
InsertQuote(sorted, x) ==
    IF sorted = <<>> THEN <<x>>
    ELSE IF Compare(Head(sorted), x) <= 0
         THEN <<Head(sorted)>> \o InsertQuote(Tail(sorted), x)
         ELSE <<x>> \o sorted

RECURSIVE SortQuotes(_)
SortQuotes(qs) ==
    IF qs = <<>> THEN <<>>
    ELSE CHOOSE r \in {InsertQuote(front, qs[Len(qs)]) :
                           front \in {SortQuotes(SubSeq(qs, 1, Len(qs) - 1))}} : TRUE

RECURSIVE SumOut(_)
SumOut(qs) == IF qs = <<>> THEN 0 ELSE Head(qs).out.v + SumOut(Tail(qs))

AnyNaN(qs) == \E i \in 1..Len(qs) : qs[i].out.nan

\* Mutant: the rethrown Error names the operation and drops the cause.
WrapErrorDropsCause(prefix, o) ==
    IF o.threw THEN [o EXCEPT !.msg = prefix] ELSE o

\* catch (error) { throw new Error(`<prefix>${error.message}`) }
WrapError(prefix, o) ==
    IF o.threw THEN [o EXCEPT !.msg = prefix \o o.msg] ELSE o

NoValidQuotes == "No valid quotes found from any DEX"

\* Mutant: without the length check an empty result is returned.
findBestRateBodyReturnsEmpty(settled, ties) ==
    LET sorted == SortQuotes(validQuotes(settled))
        n == Len(sorted)
        sum == SumOut(sorted)
    IN  IF n = 0
        THEN Return([bestQuote |-> Null, allQuotes |-> <<>>, averageRate |-> NaN,
                     savings |-> NaN, dexCount |-> 0])
        ELSE Return([
            bestQuote |-> sorted[1],
            allQuotes |-> sorted,
            averageRate |-> IF AnyNaN(sorted) THEN NaN
                            ELSE Num(ToFixed(sum, n, ties.avg)),
            savings |-> IF AnyNaN(sorted) THEN NaN
                        ELSE Num(ToFixed(n * sorted[1].out.v - sum, n, ties.sav)),
            dexCount |-> n])

\* Mutant: the sum is divided by the number of sources asked, not of quotes kept.
findBestRateBodyDividesBySources(settled, ties) ==
    LET valid == validQuotes(settled)
        sorted == SortQuotes(valid)
        n == Len(settled)
        bestQuote == sorted[1]
        sum == SumOut(sorted)
    IN  IF Len(sorted) = 0 THEN Throw(<<NoValidQuotes>>)
        ELSE Return([
            bestQuote |-> bestQuote,
            allQuotes |-> sorted,
            averageRate |-> IF AnyNaN(sorted) THEN NaN
                            ELSE Num(ToFixed(sum, n, ties.avg)),
            savings |-> IF AnyNaN(sorted) THEN NaN
                        ELSE Num(ToFixed(n * bestQuote.out.v - sum, n, ties.sav)),
            dexCount |-> Len(sorted)])

\* The body of findBestRate once validQuotes is sorted; ties tells toFixed
\* which way the half-way cases of averageRate and savings fall.
findBestRateSorted(sorted, ties) ==
    LET n == Len(sorted)
        bestQuote == sorted[1]
        sum == SumOut(sorted)
    IN  IF n = 0 THEN Throw(<<NoValidQuotes>>)
        ELSE Return([
            bestQuote |-> bestQuote,
            allQuotes |-> sorted,
            averageRate |-> IF AnyNaN(sorted) THEN NaN
                            ELSE Num(ToFixed(sum, n, ties.avg)),
            savings |-> IF AnyNaN(sorted) THEN NaN
                        ELSE Num(ToFixed(n * bestQuote.out.v - sum, n, ties.sav)),
            dexCount |-> n])

\* The body of findBestRate from the settled promises on.  The array is
\* filtered and sorted once, in place; the rest reads it.
findBestRateBody(settled, ties) ==
    CHOOSE r \in {findBestRateSorted(sorted, ties) :
                      sorted \in {SortQuotes(validQuotes(settled))}} : TRUE

\* try { body } catch (error) { throw new Error(`Failed to find best rate: ...`) }
findBestRate(settled, ties) ==
    CHOOSE r \in {WrapError(<<"Failed to find best rate: ">>, o) :
                      o \in {findBestRateBody(settled, ties)}} : TRUE

Ties == [avg : BOOLEAN, sav : BOOLEAN]

(***************************************************************************)
(* SpecRate: one findBestRate call after another, the three quote promises *)
(* settling in any order and with any outcome a promise can have.          *)
(***************************************************************************)
\* Output amounts a source may quote: 24.5, 24.2, 24.0 and 24.1234565.
RateAmounts == {245 * (Unit \div 10), 242 * (Unit \div 10), 240 * (Unit \div 10),
                241234565}

SettledOutcomes(i) ==
    {Rejected, Fulfilled(Null)} \cup {Fulfilled(Quote(Sources[i], Num(v))) : v \in RateAmounts}

NoRate == [phase |-> "idle", threw |-> FALSE, msg |-> <<>>, val |-> NoVal]
Joined(o) == [phase |-> "joined", threw |-> o.threw, msg |-> o.msg, val |-> o.val]

AllPending == [i \in 1..3 |-> Pending]

\* Mutant: the results are handed on in the order the promises settled.
allSettledInCompletionOrder(promises, order) ==
    [k \in 1..Len(order) |-> promises[order[k]]]

\* Promise.allSettled(promises): one result per promise, in the order the
\* promises were passed, whatever the order they settled in.
allSettled(promises, order) ==
    [i \in 1..Len(promises) |-> promises[i]]

InitRate ==
    /\ quotes = AllPending
    /\ rate = NoRate
    /\ settleOrder = <<>>

\* Promise.allSettled([...]): the three requests are issued together.
IssueQuotes ==
    /\ rate.phase = "joined"
    /\ quotes' = AllPending
    /\ rate' = NoRate
    /\ settleOrder' = <<>>
    /\ UNCHANGED <<dispatchVars, startVars>>

\* One of the pending requests settles.
SettleQuote(i) ==
    /\ rate.phase = "idle"
    /\ quotes[i] = Pending
    /\ \E r \in SettledOutcomes(i) : quotes' = [quotes EXCEPT ![i] = r]
    /\ settleOrder' = Append(settleOrder, i)
    /\ UNCHANGED <<rate, dispatchVars, startVars>>

\* allSettled resolves once none is pending; the rest of findBestRate runs.
JoinQuotes ==
    /\ rate.phase = "idle"
    /\ \A i \in 1..3 : quotes[i] # Pending
    /\ \E ties \in Ties :
         \E o \in {findBestRate(allSettled(quotes, settleOrder), ties)} :
            rate' = Joined(o)
    /\ UNCHANGED <<quotes, settleOrder, dispatchVars, startVars>>

NextRate ==
    \/ IssueQuotes
    \/ \E i \in 1..3 : SettleQuote(i)
    \/ JoinQuotes

(***************************************************************************)
(* The tool components.  ds is what the downstream collaborators answer    *)
(* during one invocation: [ledger, router, ties].                          *)
(***************************************************************************)
NetworkError == "network error"

LedgerOutcomes == {"SUCCESS", "INSUFFICIENT_BALANCE", "throw"}

RouterFails == [ok |-> FALSE, out |-> 0]
\* Router quotes of 0.99 and 0.96 output units.
RouterOutcomes == {RouterFails} \cup {[ok |-> TRUE, out |-> v] : v \in {99 * (Unit \div 100), 96 * (Unit \div 100)}}

WellFormedIds == {"0.0.123456", "0.0.789012"}

\* AccountId.fromString / TokenId.fromString
EntityIdFromString(id) ==
    IF id \in WellFormedIds THEN Return(NoVal)
    ELSE Throw(<<"failed to parse entity id: ", id>>)

\* Decimal strings and what parseFloat makes of them.
DecimalStrings == {"1.0", "0.5"}
parseFloat(s) ==
    CASE s = "1.0" -> Num(Unit)
      [] s = "0.5" -> Num(Unit \div 2)
      [] OTHER -> NaN

\* Hbar.fromString, ethers.parseUnits: reject what is no decimal string.
ParseDecimal(s) ==
    IF s \in DecimalStrings THEN Return(NoVal)
    ELSE Throw(<<"invalid decimal value: ", s>>)

\* new AccountBalanceQuery().setAccountId(account).execute(client)
QueryExecute(ds) ==
    Issue("balance query",
          IF ds.ledger = "throw" THEN Throw(<<NetworkError>>) ELSE Return(NoVal))

\* transaction.execute(client): the submission of a transaction.
LedgerExecute(ds) ==
    Issue("submission",
          IF ds.ledger = "throw" THEN Throw(<<NetworkError>>) ELSE Return(NoVal))

\* Mutant: the receipt is fetched but its status is not looked at.
ReceiptStatusUnchecked(ds, what) == Issue("receipt query", Return(NoVal))

\* new TransactionReceiptQuery()...execute(client), and the check of the
\* receipt's status that follows it.
ReceiptStatus(ds, what) ==
    Issue("receipt query",
          IF ds.ledger # "SUCCESS"
          THEN Throw(<<what, " failed with status: ", ds.ledger>>)
          ELSE Return(NoVal))

\* The first of the steps, in order, that throws; else the returned result.
RECURSIVE Steps(_, _)
Steps(steps, result) ==
    IF steps = <<>> THEN Return(result)
    ELSE IF Head(steps).threw THEN Head(steps)
    ELSE After(Head(steps), Steps(Tail(steps), result))

\* this.logger.info("... successfully", result) closes every handler's try block.
Logged(o) ==
    IF o.threw THEN o ELSE After(o, Steps(<<LoggerCall("info", TRUE, o.val)>>, o.val))

\* The balance a successful query answers: hbars, and tokens, a mapping from
\* token id to amount or nothing at all.
NoTokens == [present |-> FALSE, keys |-> {}]
TokenMaps == {NoTokens, [present |-> TRUE, keys |-> {"0.0.123456", "0.0.789012"}]}
HbarsString == "100.0"
TinybarsString == "10000000000"

JsNumber(n) == [t |-> "number", n |-> n]

\* balance.tokens ? Object.keys(balance.tokens).length : 0
TokenCount(tokens) == IF tokens.present THEN Cardinality(tokens.keys) ELSE 0

\* Mutant: the catch block's message leaves the account out.
getBalanceAnonymousFailure(accountId, ds) ==
    WrapError(<<"Failed to get balance: ">>,
        Logged(Steps(<<EntityIdFromString(accountId), QueryExecute(ds)>>,
            [accountId |-> accountId, balance |-> JsString(HbarsString),
             balanceInTinybars |-> JsString(TinybarsString),
             tokens |-> JsNumber(TokenCount(ds.tokens))])))

\* HederaDeFiTools.getBalance
getBalance(accountId, ds) ==
    WrapError(<<"Failed to get balance for account ", accountId, ": ">>,
        Logged(Steps(<<EntityIdFromString(accountId), QueryExecute(ds)>>,
            [accountId |-> accountId, balance |-> JsString(HbarsString),
             balanceInTinybars |-> JsString(TinybarsString),
             tokens |-> JsNumber(TokenCount(ds.tokens))])))

\* HederaDeFiTools.transferHBAR
transferHBAR(fromAccountId, toAccountId, amount, memo, ds) ==
    WrapError(<<"Failed to transfer HBAR: ">>,
        Logged(Steps(<<EntityIdFromString(fromAccountId), EntityIdFromString(toAccountId),
                       ParseDecimal(amount), LedgerExecute(ds),
                       ReceiptStatus(ds, "Transaction")>>,
            [status |-> ds.ledger, fromAccountId |-> fromAccountId,
             toAccountId |-> toAccountId, amount |-> <<amount, " hbar">>,
             memo |-> memo, networkFee |-> "0.0001"])))

\* HTSTools.createToken
createToken(name, symbol, decimals, initialSupply, treasury, ds) ==
    WrapError(<<"Failed to create HTS token: ">>,
        Logged(Steps(<<EntityIdFromString(treasury), LedgerExecute(ds),
                       ReceiptStatus(ds, "Token creation")>>,
            [tokenId |-> "0.0.789012", name |-> name, symbol |-> symbol,
             decimals |-> decimals, initialSupply |-> initialSupply,
             treasury |-> treasury, status |-> ds.ledger])))

\* HTSTools.mintToken
mintToken(tokenId, amount, recipient, ds) ==
    WrapError(<<"Failed to mint HTS tokens: ">>,
        Logged(Steps(<<EntityIdFromString(tokenId), LedgerExecute(ds),
                       ReceiptStatus(ds, "Token minting")>>,
            [tokenId |-> tokenId, amount |-> amount, recipient |-> recipient,
             status |-> ds.ledger])))

(***************************************************************************)
(* SaucerSwapTools (src/unnamed/part_002).                                 *)
(***************************************************************************)
ZeroAddress == "0x0000000000000000000000000000000000000000"
UsdcAddress == "0x0000000000000000000000000000000000000001"
UsdtAddress == "0x0000000000000000000000000000000000000002"
RouterAddress == "0x00000000000000000000000000000000000000aa"
Addresses == {ZeroAddress, UsdcAddress, UsdtAddress, RouterAddress}

\* The decimals getTokenInfo knows and those executeSwap parses with.
HbarDecimals == 8
StableDecimals == 6
DefaultDecimals == 18

\* ethers.parseUnits(s, decimals): the amount in smallest units, a bigint,
\* written m * 10^e with m not a multiple of ten.
ParseUnits(s, decimals) ==
    CASE s = "1.0" -> [m |-> 1, e |-> decimals]
      [] s = "0.5" -> [m |-> 5, e |-> decimals - 1]
      [] OTHER -> [m |-> 0, e |-> 0]

\* getTokenInfo: tokenAddress.toLowerCase() needs a string.
getTokenInfo(tokenAddress) ==
    IF tokenAddress = Undefined
    THEN Throw(<<"Cannot read properties of undefined (reading 'toLowerCase')">>)
    ELSE Return([symbol |-> CASE tokenAddress = ZeroAddress -> "HBAR"
                              [] tokenAddress = UsdcAddress -> "USDC"
                              [] tokenAddress = UsdtAddress -> "USDT"
                              [] OTHER -> "UNKNOWN",
                 decimals |-> CASE tokenAddress = ZeroAddress -> HbarDecimals
                                [] tokenAddress = UsdcAddress -> StableDecimals
                                [] tokenAddress = UsdtAddress -> StableDecimals
                                [] OTHER -> DefaultDecimals])

\* An address argument of a contract call or of encodeFunctionData.
EncodeAddress(a) ==
    IF a \in Addresses THEN Return(NoVal) ELSE Throw(<<"invalid address: ", a>>)

\* Mutant: a quote call that failed is issued a second time.
RouterCallRetries(ds) ==
    IF ds.router.ok THEN Issue("router quote call", Return(NoVal))
    ELSE [Throw(<<NetworkError>>) EXCEPT
             !.calls = <<"router quote call", "router quote call">>]

\* routerContract.getAmountsOut(amountIn, path)
RouterCall(ds) ==
    Issue("router quote call",
          IF ds.router.ok THEN Return(NoVal) ELSE Throw(<<NetworkError>>))

\* SaucerSwapTools.getQuote
getQuote(tokenIn, tokenOut, amount, ds) ==
    WrapError(<<"Failed to get quote: ">>,
        Logged(Steps(<<getTokenInfo(tokenIn), getTokenInfo(tokenOut), ParseDecimal(amount),
                       EncodeAddress(tokenIn), EncodeAddress(tokenOut), RouterCall(ds)>>,
            [tokenIn |-> [address |-> tokenIn,
                          symbol |-> getTokenInfo(tokenIn).val.symbol,
                          amount |-> amount,
                          amountWei |-> JsString(ParseUnits(amount,
                                            getTokenInfo(tokenIn).val.decimals))],
             tokenOut |-> [address |-> tokenOut, expectedAmount |-> Num(ds.router.out)]])))

\* SaucerSwapTools.executeSwap
\* ethers.parseUnits(amount, quote.tokenIn.symbol === "HBAR" ? 8 : 18)
SwapAmountIn(amount, quote) ==
    ParseUnits(amount, IF quote.tokenIn.symbol = "HBAR" THEN HbarDecimals
                       ELSE DefaultDecimals)

\* SaucerSwapTools.executeSwap.  data is the call that encodeFunctionData
\* encodes, as its arguments.
executeSwap(tokenIn, tokenOut, amount, recipient, ds) ==
    LET quote == getQuote(tokenIn, tokenOut, amount, ds)
    IN  WrapError(<<"Failed to execute swap: ">>,
            Logged(Steps(<<quote, EncodeAddress(recipient)>>,
                [transaction |->
                    [to |-> RouterAddress,
                     data |-> [amountIn |-> SwapAmountIn(amount, quote.val),
                               path |-> <<tokenIn, tokenOut>>,
                               recipient |-> recipient],
                     value |-> IF tokenIn = ZeroAddress
                               THEN JsBigInt(SwapAmountIn(amount, quote.val))
                               ELSE JsString("0")],
                 quote |-> quote.val, recipient |-> recipient])))

\* this.config of SaucerSwapTools: the object getSaucerSwapConfig() returned
\* to the constructor (apiUrl, which no operation reads, left out).
SaucerSwapConfig == [routerAddress |-> RouterAddress, network |-> "testnet"]

\* this.config.<key>: undefined for a key the object does not have.
ConfigProperty(key) ==
    IF key \in DOMAIN SaucerSwapConfig THEN SaucerSwapConfig[key] ELSE Undefined

\* SaucerSwapTools.addLiquidity: the recipient it encodes is config.operatorId,
\* which getSaucerSwapConfig() does not provide.
addLiquidity(tokenA, tokenB, amountA, amountB, ds) ==
    WrapError(<<"Failed to add liquidity: ">>,
        Logged(Steps(<<getTokenInfo(tokenA), getTokenInfo(tokenB), ParseDecimal(amountA),
                       ParseDecimal(amountB), EncodeAddress(tokenA), EncodeAddress(tokenB),
                       EncodeAddress(ConfigProperty("operatorId"))>>,
            [transaction |-> [to |-> ConfigProperty("routerAddress"),
                              data |-> [recipient |-> ConfigProperty("operatorId")],
                              value |-> JsString("0")],
             pool |-> [tokenA |-> tokenA, tokenB |-> tokenB]])))

(***************************************************************************)
(* DeFiAggregator: the three quote sources of findBestRate.                *)
(***************************************************************************)
\* getSaucerSwapQuote: a failed quote is logged and becomes null.
getSaucerSwapQuote(tokenIn, tokenOut, amount, ds) ==
    LET q == getQuote(tokenIn, tokenOut, amount, ds)
    IN  IF q.threw THEN [Return(Null) EXCEPT !.raised = q.raised, !.calls = q.calls]
        ELSE After(q, Return(Quote("SaucerSwap", q.val.tokenOut.expectedAmount)))

\* (parseFloat(amount) * rate).toFixed(6), the rate in hundredths
MockAmount(amount, hundredths, tieUp) ==
    LET x == parseFloat(amount)
    IN  IF x.nan THEN NaN ELSE Num(ToFixed(x.v * hundredths, 100, tieUp))

\* Mutant: the placeholder rejects an amount that is not a number.
getHeliSwapQuoteValidates(tokenIn, tokenOut, amount, tieUp) ==
    IF parseFloat(amount).nan THEN Throw(<<"invalid amount">>)
    ELSE Return(Quote("HeliSwap", MockAmount(amount, 98, tieUp)))

getHeliSwapQuote(tokenIn, tokenOut, amount, tieUp) ==
    Return(Quote("HeliSwap", MockAmount(amount, 98, tieUp)))

getPangolinQuote(tokenIn, tokenOut, amount, tieUp) ==
    Return(Quote("Pangolin", MockAmount(amount, 97, tieUp)))

\* Promise.allSettled on the three sources: fulfilled with the value returned,
\* rejected when the source throws.
AsSettled(o) == IF o.threw THEN Rejected ELSE Fulfilled(o.val)

findBestRateCall(tokenIn, tokenOut, amount, ds) ==
    LET saucer == getSaucerSwapQuote(tokenIn, tokenOut, amount, ds)
        heli == getHeliSwapQuote(tokenIn, tokenOut, amount, ds.ties.avg)
        pangolin == getPangolinQuote(tokenIn, tokenOut, amount, ds.ties.avg)
        o == findBestRate(<<AsSettled(saucer), AsSettled(heli), AsSettled(pangolin)>>,
                          ds.ties)
    IN  After(saucer, o)

\* DeFiAggregator.optimizePortfolio: mock portfolio, mock strategies.
optimizePortfolio(walletAddress, riskTolerance) ==
    LET risk == IF riskTolerance = Undefined THEN "medium" ELSE riskTolerance
    IN  WrapError(<<"Failed to optimize portfolio: ">>,
            Logged(Return([riskTolerance |-> risk,
                           staking |-> CASE risk = "low" -> 60 [] risk = "medium" -> 40
                                         [] OTHER -> 20,
                           totalValue |-> "$4000"])))

(***************************************************************************)
(* AyaWalletMCPServer (src/src/index.ts): the two request handlers.        *)
(***************************************************************************)
Descriptor(name, required) == [name |-> name, required |-> required]

\* The tools of the ListToolsRequestSchema handler, in order.
ToolCatalog == <<
    Descriptor("hedera_get_balance", {"accountId"}),
    Descriptor("hedera_transfer_hbar", {"fromAccountId", "toAccountId", "amount"}),
    Descriptor("saucerswap_get_quote", {"tokenIn", "tokenOut", "amount"}),
    Descriptor("saucerswap_execute_swap", {"tokenIn", "tokenOut", "amount", "recipient"}),
    Descriptor("saucerswap_add_liquidity", {"tokenA", "tokenB", "amountA", "amountB"}),
    Descriptor("hts_create_token", {"name", "symbol", "decimals", "initialSupply", "treasury"}),
    Descriptor("hts_mint_token", {"tokenId", "amount", "recipient"}),
    Descriptor("defi_find_best_rate", {"tokenIn", "tokenOut", "amount"}),
    Descriptor("defi_optimize_portfolio", {"walletAddress"}) >>

ListedNames == {ToolCatalog[i].name : i \in 1..Len(ToolCatalog)}

\* result = await handler(...): invoked lists the handler invocations made.
Called(handler, o) ==
    [called |-> handler,
     invoked |-> IF handler = "none" THEN <<>> ELSE <<handler>>,
     handler |-> o]

InvalidArguments == "Invalid arguments provided"
UnknownTool == "Unknown tool: "

\* default: throw new Error(`Unknown tool: ${name}`)
\* Mutant: a switch without the default case leaves result undefined.
DefaultCaseMissing(name) == Called("none", Return(NoVal))

DefaultCase(name) == Called("none", Throw(<<UnknownTool, name>>))

\* Letters of the names a client may send, for the mutant below.
ToLowerCase(name) ==
    IF name = "HEDERA_GET_BALANCE" THEN "hedera_get_balance" ELSE name

\* Mutant: the switch compares names without regard to case.
SwitchKeyIgnoresCase(name) == ToLowerCase(name)

\* switch (name): the value the case labels are compared with, by ===.
SwitchKey(name) == name

\* switch (name) { case ...: result = await handler(args...); default: throw }
Route(name, args, ds) ==
    CASE name = "hedera_get_balance" ->
            Called("getBalance", getBalance(Get(args, "accountId"), ds))
      [] name = "hedera_transfer_hbar" ->
            Called("transferHBAR",
                   transferHBAR(Get(args, "fromAccountId"), Get(args, "toAccountId"),
                                Get(args, "amount"), Get(args, "memo"), ds))
      [] name = "saucerswap_get_quote" ->
            Called("getQuote",
                   getQuote(Get(args, "tokenIn"), Get(args, "tokenOut"),
                            Get(args, "amount"), ds))
      [] name = "saucerswap_execute_swap" ->
            Called("executeSwap",
                   executeSwap(Get(args, "tokenIn"), Get(args, "tokenOut"),
                               Get(args, "amount"), Get(args, "recipient"), ds))
      [] name = "saucerswap_add_liquidity" ->
            Called("addLiquidity",
                   addLiquidity(Get(args, "tokenA"), Get(args, "tokenB"),
                                Get(args, "amountA"), Get(args, "amountB"), ds))
      [] name = "hts_create_token" ->
            Called("createToken",
                   createToken(Get(args, "name"), Get(args, "symbol"),
                               Get(args, "decimals"), Get(args, "initialSupply"),
                               Get(args, "treasury"), ds))
      [] name = "hts_mint_token" ->
            Called("mintToken",
                   mintToken(Get(args, "tokenId"), Get(args, "amount"),
                             Get(args, "recipient"), ds))
      [] name = "defi_find_best_rate" ->
            Called("findBestRate",
                   findBestRateCall(Get(args, "tokenIn"), Get(args, "tokenOut"),
                                    Get(args, "amount"), ds))
      [] name = "defi_optimize_portfolio" ->
            Called("optimizePortfolio",
                   optimizePortfolio(Get(args, "walletAddress"),
                                     Get(args, "riskTolerance")))
      [] OTHER -> DefaultCase(name)

\* Mutant: the guard also turns away a mapping without entries.
ArgumentGuardRejectsEmpty(args) ==
    IF ~JsTruthy(args) \/ JsTypeof(args) # "object" \/ (args.kind = "mapping" /\ args.fields = NoFields)
    THEN Throw(<<InvalidArguments>>)
    ELSE Return(NoVal)

\* if (!args || typeof args !== 'object') throw new Error('Invalid arguments provided')
ArgumentGuard(args) ==
    IF ~JsTruthy(args) \/ JsTypeof(args) # "object"
    THEN Throw(<<InvalidArguments>>)
    ELSE Return(NoVal)

\* Mutant: the switch runs before the guard, which only covers known names.
TryBlockSwitchFirst(name, args, ds) ==
    LET guard == ArgumentGuard(args)
        routed == IF name \notin ListedNames THEN DefaultCase(name)
                  ELSE IF guard.threw THEN Called("none", guard)
                  ELSE Route(SwitchKey(name), args, ds)
        text == JSONstringify(routed.handler.val)
    IN  [called |-> routed.called,
         invoked |-> routed.invoked,
         handler |-> routed.handler,
         tried |-> IF routed.handler.threw THEN routed.handler
                   ELSE After(routed.handler, text)]

\* The try block: the guard, the switch, JSON.stringify(result, null, 2).
\* [called, handler, tried]: tried is how the block ends.
TryBlock(name, args, ds) ==
    LET guard == ArgumentGuard(args)
        routed == IF guard.threw THEN Called("none", guard)
                  ELSE Route(SwitchKey(name), args, ds)
        text == JSONstringify(routed.handler.val)
    IN  [called |-> routed.called,
         invoked |-> routed.invoked,
         handler |-> routed.handler,
         tried |-> IF routed.handler.threw THEN routed.handler
                   ELSE After(routed.handler, text)]

TextItem(text) == [type |-> "text", text |-> text]
JsonText(v) == [head |-> "", json |-> v, tail |-> <<>>]
ErrorText(m) == [head |-> "Error: ", json |-> NoVal, tail |-> m]

\* return { content: [{ type: "text", text: JSON.stringify(result, null, 2) }] }
SuccessEnvelope(tried) == <<TextItem(JsonText(tried.val.json))>>

\* Mutant: the catch block adds its text to a half-built success envelope.
CatchEnvelopeKeepsResult(tried) ==
    <<TextItem(JsonText(NoVal)), TextItem(ErrorText(tried.msg))>>

\* catch (error) { return { content: [{ type: "text", text: `Error: ${error.message}` }] } }
CatchEnvelope(tried) == <<TextItem(ErrorText(tried.msg))>>

Result(content) == [kind |-> "result", content |-> content, tools |-> <<>>, fault |-> <<>>]
Fault(m) == [kind |-> "fault", content |-> <<>>, tools |-> <<>>, fault |-> m]

\* Mutant: the catch block logs and rethrows.
CallToolHandlerRethrows(name, args, ds) ==
    LET log == LoggerCall("info", JsTruthy(args), args)
        t == TryBlock(name, args, ds)
    IN  [outcome |-> t,
         reply |-> IF log.threw THEN Fault(log.msg)
                   ELSE IF t.tried.threw THEN Fault(t.tried.msg)
                   ELSE Result(SuccessEnvelope(t.tried))]

\* The CallToolRequestSchema handler: what it returns (a result) or lets escape
\* (a fault, which the protocol layer reports as a JSON-RPC error).
CallToolHandler(name, args, ds) ==
    LET log == LoggerCall("info", JsTruthy(args), args)
        t == TryBlock(name, args, ds)
    IN  [outcome |-> t,
         reply |-> IF log.threw THEN Fault(log.msg)
                   ELSE IF t.tried.threw THEN Result(CatchEnvelope(t.tried))
                   ELSE Result(SuccessEnvelope(t.tried))]

\* What the handler answers once the routed operation has ended as o: the
\* serialised result in the success envelope, or the catch block's envelope.
ReplyTo(o) ==
    LET text == JSONstringify(o.val)
        tried == IF o.threw THEN o ELSE text
    IN  IF tried.threw THEN Result(CatchEnvelope(tried))
        ELSE Result(SuccessEnvelope(tried))

\* Hbar.fromString(amount), in tinybars, and Hbar.negated().
HbarFromString(s) == ParseUnits(s, HbarDecimals)
negated(h) == [h EXCEPT !.m = 0 - h.m]

DefaultMemo == "HBAR transfer via Aya Wallet MCP"
NoTransaction == [transfers |-> <<>>, memo |-> ""]

\* new TransferTransaction().addHbarTransfer(fromAccount, hbarAmount.negated())
\*     .addHbarTransfer(toAccount, hbarAmount).setTransactionMemo(memo || ...)
TransferTransaction(fromAccountId, toAccountId, amount, memo) ==
    [transfers |-> <<[accountId |-> fromAccountId,
                      amount |-> negated(HbarFromString(amount))],
                     [accountId |-> toAccountId, amount |-> HbarFromString(amount)]>>,
     memo |-> IF memo \in {Undefined, ""} THEN DefaultMemo ELSE memo]

\* The transfer that reached the ledger in a call that ended as t: the one
\* transferHBAR built, once transaction.execute(this.client) was called.
SubmittedBy(args, t) ==
    IF t.called = "transferHBAR"
       /\ \E i \in 1..Len(t.handler.calls) : t.handler.calls[i] = "submission"
    THEN TransferTransaction(Get(args, "fromAccountId"), Get(args, "toAccountId"),
                             Get(args, "amount"), Get(args, "memo"))
    ELSE NoTransaction

\* A JSON-RPC message the transport writes to standard output.
Message(id) == [kind |-> "message", level |-> "none", context |-> "transport", id |-> id]

\* Standard output while tools/list is handled: logger.info("Listing
\* available tools"), then the response.
StdoutOfList(id) ==
    Written("info", "AyaWalletMCPServer", "stdout") \o <<Message(id)>>

\* Standard output while a tools/call is handled: logger.info(`Tool call:
\* ...`), the info line every handler opens with and the one it closes with
\* when it returns (lines of nested calls left out), then the response.
\* logger.error in the catch blocks writes to standard error.
StdoutOfCall(id, t) ==
    Written("info", "AyaWalletMCPServer", "stdout")
    \o (IF t.invoked = <<>> THEN <<>> ELSE Written("info", t.called, "stdout"))
    \o (IF t.invoked = <<>> \/ t.handler.threw THEN <<>>
        ELSE Written("info", t.called, "stdout"))
    \o Written("error", "AyaWalletMCPServer", "stdout")
    \o <<Message(id)>>

\* The ListToolsRequestSchema handler.
ListToolsHandler ==
    [kind |-> "result", content |-> <<>>,
     tools |-> [i \in 1..Len(ToolCatalog) |-> ToolCatalog[i].name], fault |-> <<>>]

(***************************************************************************)
(* ConfigManager (src/src/config/config.ts) and the start of the process   *)
(* (src/src/index.ts).  env holds the keys of process.env that the model   *)
(* lets be missing or malformed; JWT_SECRET stands for its length.         *)
(***************************************************************************)
MinSecretLength == 32

\* /^\d+\.\d+\.\d+$/ and /^0x[a-fA-F0-9]{40}$/ on the strings used here
MatchesAccountId(s) == s \in WellFormedIds
MatchesRouterAddress(s) == s \in Addresses

Envs ==
    [OPENAI_API_KEY : {Undefined, "sk-test"},
     HEDERA_NETWORK : {Undefined, "mainnet"},
     HEDERA_OPERATOR_ID : {"0.0.123456", "123456"},
     SAUCERSWAP_ROUTER_ADDRESS : {RouterAddress, "0x123"},
     JWT_SECRET : {MinSecretLength - 1, MinSecretLength}]

\* The issues of EnvSchema.parse, `path: message`, in the order of the schema.
Issues(e) ==
    (IF e.OPENAI_API_KEY = Undefined THEN <<"OPENAI_API_KEY: Required">> ELSE <<>>)
    \o (IF MatchesAccountId(e.HEDERA_OPERATOR_ID) THEN <<>>
        ELSE <<"HEDERA_OPERATOR_ID: Invalid Hedera account ID format">>)
    \o (IF MatchesRouterAddress(e.SAUCERSWAP_ROUTER_ADDRESS) THEN <<>>
        ELSE <<"SAUCERSWAP_ROUTER_ADDRESS: Invalid router address">>)
    \o (IF e.JWT_SECRET >= MinSecretLength THEN <<>>
        ELSE <<"JWT_SECRET: JWT_SECRET must be at least 32 characters">>)

\* EnvSchema.parse(process.env): the parsed object, defaults filled in.
EnvSchemaParse(e) ==
    IF Issues(e) # <<>> THEN Throw(Issues(e))
    ELSE Return([e EXCEPT !.HEDERA_NETWORK = IF @ = Undefined THEN "testnet" ELSE @])

ValidationFailed == "Configuration validation failed:\n"
NotLoaded == "Configuration not loaded. Call load() first."

\* Mutant: the environment is stored before it is validated.
loadKeepsInvalid(cfg, e) ==
    IF cfg # Null THEN [out |-> Return(cfg), config |-> cfg, validated |-> FALSE]
    ELSE LET parsed == EnvSchemaParse(e)
         IN  [out |-> WrapError(<<ValidationFailed>>, parsed),
              config |-> IF parsed.threw THEN e ELSE parsed.val,
              validated |-> TRUE]

\* Mutant: load parses the environment every time it is called.
loadAlwaysValidates(cfg, e) ==
    LET parsed == EnvSchemaParse(e)
    IN  [out |-> WrapError(<<ValidationFailed>>, parsed),
         config |-> IF parsed.threw THEN cfg ELSE parsed.val,
         validated |-> TRUE]

\* ConfigManager.load: [out, config, validated], config being this.config
\* afterwards and validated telling whether EnvSchema.parse ran.
load(cfg, e) ==
    IF cfg # Null THEN [out |-> Return(cfg), config |-> cfg, validated |-> FALSE]
    ELSE LET parsed == EnvSchemaParse(e)
         IN  [out |-> WrapError(<<ValidationFailed>>, parsed),
              config |-> IF parsed.threw THEN cfg ELSE parsed.val,
              validated |-> TRUE]

\* ConfigManager.get
get(cfg) == IF cfg = Null THEN Throw(<<NotLoaded>>) ELSE Return(cfg)

getHederaConfig(cfg) ==
    LET c == get(cfg)
    IN  IF c.threw THEN c
        ELSE Return([network |-> c.val.HEDERA_NETWORK,
                     operatorId |-> c.val.HEDERA_OPERATOR_ID])

getSaucerSwapConfig(cfg) ==
    LET c == get(cfg)
    IN  IF c.threw THEN c
        ELSE Return([routerAddress |-> c.val.SAUCERSWAP_ROUTER_ADDRESS,
                     network |-> c.val.HEDERA_NETWORK])

getComput3Config(cfg) ==
    LET c == get(cfg)
    IN  IF c.threw THEN c ELSE Return([apiKey |-> c.val.OPENAI_API_KEY])

Readers == {"get", "getHederaConfig", "getSaucerSwapConfig", "getComput3Config"}

ReadConfig(reader, cfg) ==
    CASE reader = "get" -> get(cfg)
      [] reader = "getHederaConfig" -> getHederaConfig(cfg)
      [] reader = "getSaucerSwapConfig" -> getSaucerSwapConfig(cfg)
      [] reader = "getComput3Config" -> getComput3Config(cfg)

\* new AyaWalletMCPServer(): the four tool components are built one after the
\* other, each reading the configuration in its constructor.
ServerConstructor(cfg) ==
    Steps(<<getHederaConfig(cfg), getSaucerSwapConfig(cfg), getHederaConfig(cfg),
            getSaucerSwapConfig(cfg)>>, NoVal)

Running == 0 - 1

Process(program, pc, exitCode, error) ==
    [program |-> program, pc |-> pc, exitCode |-> exitCode, error |-> error]

\* AyaWalletMCPServer.start: load the configuration, connect the transport;
\* on an exception log it and process.exit(1).
start(cfg, e) ==
    LET l == load(cfg, e)
    IN  IF l.out.threw
        THEN [proc |-> Process("index", "exited", 1, l.out.msg), config |-> l.config,
              connected |-> FALSE]
        ELSE [proc |-> Process("index", "serving", Running, <<>>), config |-> l.config,
              connected |-> TRUE]

\* Mutant: the components read the configuration when first used and start
\* connects the transport without loading it.
RunIndexNeverLoads(cfg, e) ==
    [proc |-> Process("index", "serving", Running, <<>>), config |-> cfg,
     connected |-> TRUE]

\* The module-level statements of index.ts: construct the server, then start
\* it.  An exception of the constructor is uncaught and ends the process with
\* exit code 1.
RunIndex(cfg, e) ==
    LET built == ServerConstructor(cfg)
    IN  IF built.threw
        THEN [proc |-> Process("index", "exited", 1, built.msg), config |-> cfg,
              connected |-> FALSE]
        ELSE start(cfg, e)

NoConfigOp == [op |-> "none", out |-> Return(NoVal), validated |-> FALSE]

\* The environment and configuration of the server that Spec starts from.
ServingEnv ==
    [OPENAI_API_KEY |-> "sk-test", HEDERA_NETWORK |-> Undefined,
     HEDERA_OPERATOR_ID |-> "0.0.123456", SAUCERSWAP_ROUTER_ADDRESS |-> RouterAddress,
     JWT_SECRET |-> MinSecretLength]

InitServing ==
    /\ proc = Process("index", "serving", Running, <<>>)
    /\ env = ServingEnv
    /\ config = EnvSchemaParse(ServingEnv).val
    /\ configOp = NoConfigOp

(***************************************************************************)
(* Requests.                                                               *)
(***************************************************************************)
RequestNames ==
    ListedNames \cup {"nonexistent_tool", "HEDERA_GET_BALANCE", "hts_mint_token_v2",
                      "v2_defi_find_best_rate"}

GoodFields(tokenIn, tokenOut, amount) ==
    [accountId |-> "0.0.123456", fromAccountId |-> "0.0.123456",
     toAccountId |-> "0.0.789012", amount |-> amount, memo |-> "Test transfer",
     tokenIn |-> tokenIn, tokenOut |-> tokenOut, recipient |-> RouterAddress,
     tokenA |-> tokenIn, tokenB |-> tokenOut, amountA |-> amount, amountB |-> amount,
     name |-> "Test Token", symbol |-> "TEST", decimals |-> "8",
     initialSupply |-> "1000000", treasury |-> "0.0.123456", tokenId |-> "0.0.789012",
     walletAddress |-> "0.0.123456", riskTolerance |-> "low"]

BadFields ==
    [accountId |-> "invalid-id", fromAccountId |-> "invalid-id",
     toAccountId |-> "0.0.789012", amount |-> "abc",
     tokenIn |-> ZeroAddress, tokenOut |-> UsdcAddress, recipient |-> "nobody",
     tokenA |-> ZeroAddress, tokenB |-> UsdcAddress, amountA |-> "abc", amountB |-> "1.0",
     treasury |-> "invalid-id", tokenId |-> "invalid-id", walletAddress |-> "0.0.123456"]

Mappings ==
    {ArgValue("mapping", TRUE, f) :
        f \in {NoFields, GoodFields(ZeroAddress, UsdcAddress, "1.0"),
               GoodFields(UsdcAddress, ZeroAddress, "0.5"),
               GoodFields(UsdtAddress, RouterAddress, "1.0"),
               GoodFields(RouterAddress, UsdtAddress, "0.5"), BadFields}}

\* undefined, null, "", "x", 0, 1, false, true and an array.
NonMappings ==
    {ArgValue(k, FALSE, NoFields) : k \in {"undefined", "null", "string", "number", "boolean"}}
    \cup {ArgValue(k, TRUE, NoFields) : k \in {"string", "number", "boolean", "array"}}

ArgValues == Mappings \cup NonMappings

NoTies == [avg |-> FALSE, sav |-> FALSE]

\* No collaborator was asked.
NoAnswers ==
    [ledger |-> "throw", router |-> RouterFails, ties |-> NoTies, tokens |-> NoTokens]

\* What the collaborators a tool talks to may answer.
Downstream(name) ==
    CASE name = "hedera_get_balance" ->
            {[NoAnswers EXCEPT !.ledger = "SUCCESS", !.tokens = t] : t \in TokenMaps}
            \cup {NoAnswers}
      [] name \in {"hedera_transfer_hbar", "hts_create_token", "hts_mint_token"} ->
            {[NoAnswers EXCEPT !.ledger = l] : l \in LedgerOutcomes}
      [] name \in {"saucerswap_get_quote", "saucerswap_execute_swap"} ->
            {[NoAnswers EXCEPT !.router = r] : r \in RouterOutcomes}
      [] name = "defi_find_best_rate" ->
            \* no average of the amounts quoted here is a half-way case of toFixed
            {[NoAnswers EXCEPT !.router = r] : r \in RouterOutcomes}
      [] OTHER -> {NoAnswers}

NoArgs == ArgValue("undefined", FALSE, NoFields)
NoOutcome ==
    [called |-> "none", invoked |-> <<>>, handler |-> Return(NoVal),
     tried |-> Return(NoVal)]
NoRequest == [id |-> 0, method |-> "none", name |-> "", args |-> NoArgs]
NoResponse == [id |-> 0] @@ Result(<<>>)

IsFailure(resp) ==
    /\ resp.kind = "result"
    /\ Len(resp.content) > 0
    /\ resp.content[1].text.head = "Error: "

InitDispatch ==
    /\ connected = TRUE
    /\ logLevel \in {LogLevels[i] : i \in 1..Len(LogLevels)}
    /\ served = 0
    /\ request = NoRequest
    /\ response = NoResponse
    /\ outcome = NoOutcome
    /\ answers = NoAnswers
    /\ prevFailed = FALSE
    /\ stdout = <<>>
    /\ submitted = NoTransaction

Init == InitDispatch /\ InitRate /\ InitServing

\* tools/list
ListTools ==
    /\ connected
    /\ served < MaxRequests
    /\ request' = [id |-> served + 1, method |-> "tools/list", name |-> "", args |-> NoArgs]
    /\ response' = [id |-> served + 1] @@ ListToolsHandler
    /\ stdout' = StdoutOfList(served + 1)
    /\ submitted' = NoTransaction
    /\ outcome' = NoOutcome
    /\ answers' = NoAnswers
    /\ prevFailed' = IsFailure(response)
    /\ served' = served + 1
    /\ UNCHANGED <<connected, logLevel, rateVars, startVars>>

\* Mutant: after a failure the handler keeps answering with that failure.
CallToolKeepsLastError ==
    /\ connected
    /\ served < MaxRequests
    /\ \E name \in RequestNames, args \in ArgValues :
         \E ds \in Downstream(name) :
            \E r \in {CallToolHandler(name, args, ds)} :
                /\ request' = [id |-> served + 1, method |-> "tools/call",
                               name |-> name, args |-> args]
                /\ response' = [id |-> served + 1] @@
                                 (IF IsFailure(response) THEN Result(response.content)
                                  ELSE r.reply)
                /\ outcome' = r.outcome
                /\ stdout' = StdoutOfCall(served + 1, r.outcome)
                /\ submitted' = SubmittedBy(args, r.outcome)
                /\ answers' = ds
    /\ prevFailed' = IsFailure(response)
    /\ served' = served + 1
    /\ UNCHANGED <<connected, logLevel, rateVars, startVars>>

\* tools/call
CallTool ==
    /\ connected
    /\ served < MaxRequests
    /\ \E name \in RequestNames, args \in ArgValues :
         \E ds \in Downstream(name) :
            \E r \in {CallToolHandler(name, args, ds)} :
                /\ request' = [id |-> served + 1, method |-> "tools/call",
                               name |-> name, args |-> args]
                /\ response' = [id |-> served + 1] @@ r.reply
                /\ outcome' = r.outcome
                /\ stdout' = StdoutOfCall(served + 1, r.outcome)
                /\ submitted' = SubmittedBy(args, r.outcome)
                /\ answers' = ds
    /\ prevFailed' = IsFailure(response)
    /\ served' = served + 1
    /\ UNCHANGED <<connected, logLevel, rateVars, startVars>>

Next == ListTools \/ CallTool

Spec == Init /\ [][Next]_vars

SpecRate == Init /\ [][NextRate]_vars

\* The continuation of `await Promise.allSettled(...)` is a job of the event
\* loop: once the three promises are settled it runs.
SpecRateFair == SpecRate /\ WF_vars(JoinQuotes)

(***************************************************************************)
(* SpecConfig: a process from its first statement on.  The program is      *)
(* either index.ts, which constructs and starts the server, or a client of *)
(* the exported Config singleton, which loads and reads it in any order    *)
(* while the environment may change.                                       *)
(***************************************************************************)
Programs == {"index", "client"}

InitConfig ==
    /\ connected = FALSE
    /\ logLevel = "info"
    /\ served = 0
    /\ request = NoRequest
    /\ response = NoResponse
    /\ outcome = NoOutcome
    /\ answers = NoAnswers
    /\ prevFailed = FALSE
    /\ stdout = <<>>
    /\ submitted = NoTransaction
    /\ InitRate
    /\ proc \in {Process(p, "module", Running, <<>>) : p \in Programs}
    /\ env \in Envs
    /\ config = Null
    /\ configOp = NoConfigOp

\* node dist/index.js
Main ==
    /\ proc.program = "index"
    /\ proc.pc = "module"
    /\ LET r == RunIndex(config, env)
       IN  /\ proc' = r.proc
           /\ config' = r.config
           /\ connected' = r.connected
    /\ UNCHANGED <<logLevel, served, request, response, outcome, answers, prevFailed,
                   stdout, submitted, rateVars, env, configOp>>

\* await Config.load()
Load ==
    /\ proc.program = "client"
    /\ LET l == load(config, env)
       IN  /\ config' = l.config
           /\ configOp' = [op |-> "load", out |-> l.out, validated |-> l.validated]
    /\ UNCHANGED <<dispatchVars, rateVars, proc, env>>

\* Config.get(), Config.getHederaConfig(), ...
Read ==
    /\ proc.program = "client"
    /\ \E reader \in Readers :
          configOp' = [op |-> reader, out |-> ReadConfig(reader, config),
                       validated |-> FALSE]
    /\ UNCHANGED <<dispatchVars, rateVars, proc, env, config>>

\* process.env is assigned between two calls.
SetEnv ==
    /\ proc.program = "client"
    /\ env' \in Envs \ {env}
    /\ UNCHANGED <<dispatchVars, rateVars, proc, config, configOp>>

NextConfig == Main \/ Load \/ Read \/ SetEnv

SpecConfig == InitConfig /\ [][NextConfig]_vars

(***************************************************************************)
(* Properties.                                                             *)
(***************************************************************************)
IsCall == request.method = "tools/call"
IsList == request.method = "tools/list"

Text == response.content[1].text

\* m occurs in the text t as a run of consecutive pieces
Contains(t, m) ==
    \E i \in 1..(Len(t) - Len(m) + 1) : SubSeq(t, i, i + Len(m) - 1) = m

IsFailureWith(m) == IsFailure(response) /\ Text.tail = m
IsUnknownToolFailure == IsFailureWith(<<UnknownTool, request.name>>)
IsInvalidArgumentsFailure == IsFailureWith(<<InvalidArguments>>)
IsSuccess == response.kind = "result" /\ Len(response.content) > 0 /\ Text.head = ""

NineNames ==
    {"hedera_get_balance", "hedera_transfer_hbar", "saucerswap_get_quote",
     "saucerswap_execute_swap", "saucerswap_add_liquidity", "hts_create_token",
     "hts_mint_token", "defi_find_best_rate", "defi_optimize_portfolio"}

\* C1: tools/list returns the nine names, a fixed non-empty set, and a name is
\* listed if and only if calling it with a mapping argument does not end in
\* the 'Unknown tool' failure.
C1_CatalogIsWhatIsRouted ==
    /\ IsList => /\ response.tools # <<>>
                 /\ {response.tools[i] : i \in 1..Len(response.tools)} = NineNames
    /\ (IsCall /\ request.args.kind = "mapping") =>
            (request.name \in NineNames <=> ~IsUnknownToolFailure)

C1_Witness ==
    /\ IsCall /\ request.args.kind = "mapping"
    /\ request.name = "defi_optimize_portfolio"
    /\ outcome.called = "optimizePortfolio"
    /\ IsSuccess
    /\ prevFailed

\* C2: a name outside the catalog with a mapping argument, the empty mapping
\* included, ends in the UnknownOperation failure naming the tool, and no
\* handler is invoked.
C2_UnknownNameWithMapping ==
    (IsCall /\ request.name \notin ListedNames /\ request.args.kind = "mapping") =>
        /\ IsUnknownToolFailure
        /\ outcome.called = "none"

C2_Witness ==
    /\ IsCall
    /\ request.name = "nonexistent_tool"
    /\ request.args = ArgValue("mapping", TRUE, NoFields)
    /\ IsUnknownToolFailure

GuardPasses(a) == a.kind \in {"mapping", "array"}

\* C3 as stated: a name outside the catalog ends in UnknownOperation whatever
\* the argument is, also when it is absent or not a mapping.
C3_UnknownNameAnyArgument ==
    (IsCall /\ request.name \notin ListedNames) => IsUnknownToolFailure

\* C3 amended: a name outside the catalog ends in UnknownOperation when the
\* argument passes the guard (a mapping or an array); when the argument is
\* absent or not an object the guard comes first and the failure is
\* InvalidArguments.  No handler is invoked either way.
C3_UnknownNameAfterGuard ==
    (IsCall /\ request.name \notin ListedNames) =>
        /\ GuardPasses(request.args) => IsUnknownToolFailure
        /\ ~GuardPasses(request.args) => IsInvalidArgumentsFailure
        /\ outcome.called = "none"

C3_Witness ==
    /\ IsCall
    /\ request.name = "nonexistent_tool"
    /\ request.args.kind = "null"
    /\ IsInvalidArgumentsFailure

\* C4: a catalog name with an absent argument or one that is no mapping (a
\* string, a number, a boolean, an array) ends in the InvalidArguments failure
\* and no handler is called.
C4_KnownNameNonMapping ==
    (IsCall /\ request.name \in ListedNames /\ request.args.kind # "mapping") =>
        /\ IsInvalidArgumentsFailure
        /\ outcome.called = "none"

IsCatalogCall == IsCall /\ request.name \in ListedNames

\* C5 as stated: every exception raised while a catalog operation's handler
\* runs ends in a failure result whose text contains its message, and nothing
\* escapes the tools/call handler.
C5_EveryExceptionReported ==
    IsCatalogCall =>
        /\ response.kind = "result"
        /\ \A m \in outcome.tried.raised : IsFailure(response) /\ Contains(Text.tail, m)

\* C5 amended: nothing escapes the tools/call handler; every exception raised
\* while a catalog operation's handler runs ends in a failure result whose
\* text contains its message, except a failed SaucerSwap quote inside
\* defi_find_best_rate, which the aggregator swallows.
C5_PropagatedExceptionReported ==
    IsCatalogCall =>
        /\ response.kind = "result"
        /\ outcome.tried.threw =>
              /\ IsFailure(response)
              /\ \A m \in outcome.tried.raised : Contains(Text.tail, m)
        /\ (~outcome.tried.threw /\ outcome.tried.raised # {}) =>
              /\ request.name = "defi_find_best_rate"
              /\ IsSuccess

C5_Witness ==
    /\ IsCatalogCall
    /\ request.name = "hedera_transfer_hbar"
    /\ outcome.called = "transferHBAR"
    /\ outcome.tried.raised = {<<NetworkError>>}
    /\ IsFailureWith(<<"Failed to transfer HBAR: ", NetworkError>>)

\* C6: after an invocation that ended in a failure result the server is still
\* connected and serving: every request, also one that follows a failed one,
\* gets its own response, and that response is a result, never a
\* protocol-level fault.
C6_ServesAfterFailure ==
    /\ connected
    /\ served > 0 =>
          /\ request.id = served
          /\ response.id = request.id
          /\ response.kind = "result"

C6_Witness ==
    /\ prevFailed
    /\ IsCall
    /\ IsFailure(response)
    /\ response.id = 2
    /\ connected

\* C7: a tools/call response holds exactly one content item, of type text,
\* whose text is the JSON serialisation of the handler's result when the call
\* succeeded, or 'Error: ' and the failure message when it failed: one of the
\* two, never both, never neither.
C7_OneTextItem ==
    IsCall =>
        /\ response.kind = "result"
        /\ Len(response.content) = 1
        /\ response.content[1].type = "text"
        /\ \/ /\ ~outcome.tried.threw
              /\ Text = JsonText(outcome.handler.val)
              /\ Text.tail = <<>>
           \/ /\ outcome.tried.threw
              /\ Text = ErrorText(outcome.tried.msg)
              /\ Text.json = NoVal

C7_Witness ==
    /\ IsCall
    /\ request.name = "saucerswap_execute_swap"
    /\ outcome.called = "executeSwap"
    /\ ~outcome.handler.threw
    /\ outcome.tried.threw
    /\ Text = ErrorText(<<BigIntMessage>>)

(***************************************************************************)
(* Properties of findBestRate, under SpecRate.                             *)
(***************************************************************************)
IsJoined == rate.phase = "joined"

Survivors == {quotes[i].value : i \in {j \in 1..3 : IsValidQuote(quotes[j])}}

SurvivorSum == LET vs == validQuotes(quotes) IN SumOut(vs)

\* avg is the decimal of six digits nearest to numer / denom
IsRoundedQuotient(avg, numer, denom) ==
    /\ ~avg.nan
    /\ avg.v % Ulp = 0
    /\ 2 * Abs(avg.v * denom - numer) <= denom * Ulp

\* What findBestRate keeps of the settled quotes: the failed ones dropped, the
\* rest sorted by descending output amount, the first of them the best one.
KeepsSurvivorsSorted ==
    /\ ~rate.threw
    /\ Len(rate.val.allQuotes) = Cardinality(Survivors)
    /\ {rate.val.allQuotes[i] : i \in 1..Len(rate.val.allQuotes)} = Survivors
    /\ \A i \in 1..(Len(rate.val.allQuotes) - 1) :
          rate.val.allQuotes[i].out.v >= rate.val.allQuotes[i + 1].out.v
    /\ rate.val.bestQuote \in Survivors
    /\ \A q \in Survivors : rate.val.bestQuote.out.v >= q.out.v
    /\ rate.val.dexCount = Cardinality(Survivors)

Amounts(qs) == {qs[i].value.out.v : i \in 1..3}

\* C9: when the three sources succeed with 24.5, 24.2 and 24.0 the call
\* reports best 24.5, averageRate 24.233333, savings 0.266667 and dexCount 3.
C9_ThreeQuotesExample ==
    (/\ IsJoined
     /\ \A i \in 1..3 : IsValidQuote(quotes[i])
     /\ Amounts(quotes) = {245 * (Unit \div 10), 242 * (Unit \div 10), 240 * (Unit \div 10)}) =>
        /\ ~rate.threw
        /\ rate.val.bestQuote.out = Num(245 * (Unit \div 10))
        /\ rate.val.averageRate = Num(24233333 * Ulp)
        /\ rate.val.savings = Num(266667 * Ulp)
        /\ rate.val.dexCount = 3

C9_Witness ==
    /\ IsJoined
    /\ quotes[1] = Fulfilled(Quote("SaucerSwap", Num(245 * (Unit \div 10))))
    /\ quotes[2] = Fulfilled(Quote("HeliSwap", Num(242 * (Unit \div 10))))
    /\ quotes[3] = Fulfilled(Quote("Pangolin", Num(240 * (Unit \div 10))))
    /\ rate.val.savings = Num(266667 * Ulp)

C11_AllSourcesFail ==
    (IsJoined /\ Survivors = {}) =>
        /\ rate.threw
        /\ rate.msg = <<"Failed to find best rate: ", NoValidQuotes>>
        /\ ReplyTo(rate).kind = "result"
        /\ Len(ReplyTo(rate).content) = 1
        /\ ReplyTo(rate).content[1].text.head = "Error: "
        /\ Contains(ReplyTo(rate).content[1].text.tail, <<NoValidQuotes>>)

C11_Witness ==
    /\ IsJoined
    /\ quotes[1] = Fulfilled(Null)
    /\ quotes[2] = Rejected
    /\ quotes[3] = Rejected
    /\ rate.threw
    /\ ReplyTo(rate) = Result(CatchEnvelope(rate))

(***************************************************************************)
(* Properties of the ledger operations, under Spec.                        *)
(***************************************************************************)
Issued(req) ==
    Len(SelectSeq(outcome.handler.calls, LAMBDA c : c = req))

ReceiptOperations == {"hedera_transfer_hbar", "hts_create_token", "hts_mint_token"}

\* C12: when the receipt of hedera_transfer_hbar, hts_create_token or
\* hts_mint_token reports a status other than Success, the response is a
\* failure result whose text carries that status code and holds no success
\* payload.
C12_NonSuccessReceipt ==
    (/\ IsCall
     /\ request.name \in ReceiptOperations
     /\ Issued("receipt query") > 0
     /\ answers.ledger # "SUCCESS") =>
        /\ IsFailure(response)
        /\ Contains(Text.tail, <<" failed with status: ", answers.ledger>>)
        /\ Text.json = NoVal
        /\ ~IsSuccess

C12_Witness ==
    /\ IsCall
    /\ request.name = "hts_mint_token"
    /\ outcome.called = "mintToken"
    /\ Issued("receipt query") = 1
    /\ answers.ledger = "INSUFFICIENT_BALANCE"
    /\ IsFailureWith(<<"Failed to mint HTS tokens: ", "Token minting",
                       " failed with status: ", "INSUFFICIENT_BALANCE">>)

\* C13: a hedera_get_balance call whose balance query succeeds returns the
\* account identifier as it was passed in, the balance and the balance in
\* tinybars as strings and the number of token entries; a call whose account
\* identifier cannot be parsed fails with a message naming that identifier.
C13_BalanceEchoesAccount ==
    (IsCall /\ request.name = "hedera_get_balance") =>
        /\ (Issued("balance query") > 0 /\ answers.ledger # "throw") =>
              /\ IsSuccess
              /\ Text.json.accountId = Get(request.args, "accountId")
              /\ Text.json.balance = JsString(HbarsString)
              /\ Text.json.balanceInTinybars = JsString(TinybarsString)
              /\ Text.json.tokens.t = "number"
              /\ Text.json.tokens.n = TokenCount(answers.tokens)
        /\ (GuardPasses(request.args)
               /\ Get(request.args, "accountId") \notin WellFormedIds) =>
              /\ IsFailure(response)
              /\ Contains(Text.tail, <<"Failed to get balance for account ",
                                       Get(request.args, "accountId")>>)
              /\ Issued("balance query") = 0

C13_Witness ==
    /\ IsCall
    /\ request.name = "hedera_get_balance"
    /\ Get(request.args, "accountId") = "0.0.123456"
    /\ answers.ledger = "SUCCESS"
    /\ answers.tokens.present
    /\ IsSuccess
    /\ Text.json.accountId = "0.0.123456"
    /\ Text.json.tokens = JsNumber(2)

(***************************************************************************)
(* Properties of the start of the process and of ConfigManager, under      *)
(* SpecConfig.                                                             *)
(***************************************************************************)
IsIndex == proc.program = "index"
HasRun == proc.pc # "module"

DownstreamRequests ==
    {"submission", "receipt query", "balance query", "router quote call"}

Calls == outcome.handler.calls

\* The request issued last got a failure for an answer.
LastRequestFailed ==
    /\ Calls # <<>>
    /\ LET last == Calls[Len(Calls)]
       IN  \/ last \in {"submission", "balance query"} /\ answers.ledger = "throw"
           \/ last = "receipt query" /\ answers.ledger # "SUCCESS"
           \/ last = "router quote call" /\ ~answers.router.ok

\* Some request issued during the call got a failure for an answer.
SomeRequestFailed ==
    \/ Issued("submission") > 0 /\ answers.ledger = "throw"
    \/ Issued("balance query") > 0 /\ answers.ledger = "throw"
    \/ Issued("receipt query") > 0 /\ answers.ledger # "SUCCESS"
    \/ Issued("router quote call") > 0 /\ ~answers.router.ok

\* C15 as stated: within one call every downstream request is issued at most
\* once, and when one fails the call ends at once, in a failure result,
\* without issuing it again.
C15_FailureEndsInFailureResult ==
    IsCall =>
        /\ \A req \in DownstreamRequests : Issued(req) <= 1
        /\ SomeRequestFailed => (LastRequestFailed /\ IsFailure(response))

\* C15 amended: within one call every downstream request is issued at most
\* once; when one fails no further request is issued, and the call ends in a
\* failure result unless it is defi_find_best_rate, which drops the failed
\* SaucerSwap quote and returns a success result from the other sources.
C15_NoRetries ==
    IsCall =>
        /\ \A req \in DownstreamRequests : Issued(req) <= 1
        /\ SomeRequestFailed =>
              /\ LastRequestFailed
              /\ request.name # "defi_find_best_rate" => IsFailure(response)
              /\ request.name = "defi_find_best_rate" =>
                    (IsSuccess /\ Text.json.dexCount = 2)

C15_Witness ==
    /\ IsCall
    /\ request.name = "hedera_transfer_hbar"
    /\ answers.ledger = "throw"
    /\ Calls = <<"submission">>
    /\ IsFailureWith(<<"Failed to transfer HBAR: ", NetworkError>>)

(***************************************************************************)
(* Properties of the sequence of calls, under Spec.                        *)
(***************************************************************************)
\* What a server that has served nothing yet answers to the last request,
\* given the same downstream answers.
FreshCall == CallToolHandler(request.name, request.args, answers)

HandlerOf(name) ==
    CASE name = "hedera_get_balance" -> "getBalance"
      [] name = "hedera_transfer_hbar" -> "transferHBAR"
      [] name = "saucerswap_get_quote" -> "getQuote"
      [] name = "saucerswap_execute_swap" -> "executeSwap"
      [] name = "saucerswap_add_liquidity" -> "addLiquidity"
      [] name = "hts_create_token" -> "createToken"
      [] name = "hts_mint_token" -> "mintToken"
      [] name = "defi_find_best_rate" -> "findBestRate"
      [] name = "defi_optimize_portfolio" -> "optimizePortfolio"
      [] OTHER -> "none"

\* C17: for a catalog name and a mapping argument the dispatcher invokes
\* exactly one handler, the one of that name, exactly once; names are
\* matched exactly, so a name that differs from every catalog name only in
\* case, by a prefix or by a suffix invokes no handler and, with a mapping
\* argument, ends in the unknown-tool failure.
C17_ExactlyOneHandler ==
    IsCall =>
        /\ (request.name \in ListedNames /\ request.args.kind = "mapping") =>
                /\ outcome.invoked = <<HandlerOf(request.name)>>
                /\ outcome.called = HandlerOf(request.name)
                /\ outcome.called # "none"
        /\ request.name \in {"HEDERA_GET_BALANCE", "hts_mint_token_v2",
                              "v2_defi_find_best_rate"} =>
                /\ outcome.invoked = <<>>
                /\ request.args.kind = "mapping" => IsUnknownToolFailure

C17_Witness ==
    /\ IsCall
    /\ request.name = "HEDERA_GET_BALANCE"
    /\ request.args.kind = "mapping"
    /\ request.args.fields = GoodFields(ZeroAddress, UsdcAddress, "1.0")
    /\ outcome.invoked = <<>>
    /\ IsUnknownToolFailure

\* The value a successful defi_find_best_rate call returned.
BestRateResult == outcome.handler.val

IsBestRateSuccess ==
    /\ IsCall
    /\ request.name = "defi_find_best_rate"
    /\ outcome.called = "findBestRate"
    /\ IsSuccess

\* s is best - average of the quotes qs, to the six decimals it is printed with
IsBestMinusAverage(s, qs) ==
    LET n == Len(qs)
        exact == n * qs[1].out.v - SumOut(qs)
    IN  /\ \A i \in 1..n : qs[1].out.v >= qs[i].out.v
        /\ 2 * Abs(n * s - exact) <= n * Ulp

\* C18: the savings figure of every successful defi_find_best_rate result is
\* a number, equal to the best output amount minus the average output amount
\* (printed with six decimals), and greater than or equal to 0.
C18_SavingsNonNegative ==
    IsBestRateSuccess =>
        /\ BestRateResult.dexCount > 0
        /\ ~BestRateResult.savings.nan
        /\ BestRateResult.savings.v >= 0
        /\ IsBestMinusAverage(BestRateResult.savings.v, BestRateResult.allQuotes)

(***************************************************************************)
(* The join of the three quote requests, under SpecRateFair.               *)
(***************************************************************************)
NonePending == \A i \in 1..3 : quotes[i] # Pending

\* The place of a quote's source among the requests as they were issued.
SourceIndex(q) == CHOOSE i \in 1..3 : Sources[i] = q.source

\* The requests are outstanding together: exactly those settled so far, each
\* once, are no longer pending.
SettledSoFar ==
    /\ Len(settleOrder) = Cardinality({settleOrder[k] : k \in 1..Len(settleOrder)})
    /\ \A i \in 1..3 :
          quotes[i] # Pending <=> \E k \in 1..Len(settleOrder) : settleOrder[k] = i

\* The result is what the settled quotes, taken by source, determine: the
\* survivors by descending amount, equal amounts in the order the requests
\* were issued.
JoinedBySource ==
    /\ NonePending
    /\ rate.threw <=> Survivors = {}
    /\ ~rate.threw =>
         LET all == rate.val.allQuotes
         IN  /\ Len(all) = Cardinality(Survivors)
             /\ {all[k] : k \in 1..Len(all)} = Survivors
             /\ \A k, l \in 1..Len(all) :
                   k < l => \/ all[k].out.v > all[l].out.v
                            \/ /\ all[k].out.v = all[l].out.v
                               /\ SourceIndex(all[k]) < SourceIndex(all[l])
             /\ rate.val.bestQuote = all[1]
             /\ rate.val.dexCount = Len(all)
             /\ IsRoundedQuotient(rate.val.averageRate, SurvivorSum, Len(all))

\* C19: the three quote requests are outstanding together and the call
\* produces its result only once all three have settled; bestQuote, the order
\* of allQuotes (ties included), averageRate and dexCount are determined by
\* what each source answered, whatever the order the requests settled in; and
\* once every request has settled the call completes.
C19_JoinIsOrderIndependent ==
    /\ [](SettledSoFar /\ (IsJoined => JoinedBySource))
    /\ (NonePending /\ ~IsJoined) ~> IsJoined

C19_Witness ==
    /\ IsJoined
    /\ settleOrder = <<3, 2, 1>>
    /\ quotes[1] = Fulfilled(Quote("SaucerSwap", Num(245 * (Unit \div 10))))
    /\ quotes[2] = Fulfilled(Quote("HeliSwap", Num(240 * (Unit \div 10))))
    /\ quotes[3] = Fulfilled(Quote("Pangolin", Num(245 * (Unit \div 10))))
    /\ rate.val.allQuotes[1].source = "SaucerSwap"
    /\ rate.val.allQuotes[2].source = "Pangolin"
    /\ rate.val.dexCount = 3

(***************************************************************************)
(* The configuration singleton, under SpecConfig.                          *)
(***************************************************************************)
IsRead == configOp.op \in Readers
IsLoad == configOp.op = "load"

\* A read or a load as the state after it shows it.  A read leaves
\* this.config alone, so config is what the read found.
ReadsAndLoads ==
    /\ (IsRead /\ config = Null) =>
            /\ configOp.out.threw
            /\ configOp.out.msg = <<"Configuration not loaded. Call load() first.">>
    /\ (IsRead /\ config # Null) =>
            /\ ~configOp.out.threw
            /\ configOp.out.val # NoVal
    /\ (IsLoad /\ ~configOp.out.threw) =>
            /\ config # Null
            /\ configOp.out.val = config
    /\ (IsLoad /\ ~configOp.validated) => ~configOp.out.threw

\* Once loaded, the configuration stays what it is, whatever the environment
\* becomes, and a load then returns it without validating.
LoadedStaysLoaded ==
    config # Null =>
        /\ config' = config
        /\ (configOp' # configOp /\ configOp'.op = "load") =>
                /\ ~configOp'.validated
                /\ configOp'.out = Return(config)

\* C20: a read before a successful load fails with 'Configuration not
\* loaded. Call load() first.'; after a successful load every read succeeds,
\* and every further load returns the same cached configuration without
\* validating the environment again.
C20_LoadOnceThenCached ==
    /\ []ReadsAndLoads
    /\ [][LoadedStaysLoaded]_vars

\* A load made after the environment became invalid returns the cached
\* configuration.
C20_Witness ==
    /\ proc.program = "client"
    /\ IsLoad
    /\ ~configOp.validated
    /\ config # Null
    /\ configOp.out = Return(config)
    /\ EnvSchemaParse(env).threw

IsFailedLoad == IsLoad /\ configOp.out.threw

\* A failed load as the state after it shows it: nothing was stored, and the
\* error lists the issues after 'Configuration validation failed:'.
FailedLoadStoresNothing ==
    IsFailedLoad =>
        /\ config = Null
        /\ configOp.validated
        /\ Len(configOp.out.msg) > 1
        /\ configOp.out.msg[1] = "Configuration validation failed:\n"

\* The call that follows a failed load, the environment being what it is at
\* that call: a read fails as not loaded, a load validates again.
AfterFailedLoad ==
    (IsFailedLoad /\ env' = env /\ configOp' # configOp) =>
        /\ configOp'.op \in Readers =>
                /\ configOp'.out = Throw(<<"Configuration not loaded. Call load() first.">>)
                /\ config' = Null
        /\ configOp'.op = "load" =>
                /\ configOp'.validated
                /\ configOp'.out = WrapError(<<ValidationFailed>>, EnvSchemaParse(env))
                /\ ~configOp'.out.threw => config' = configOp'.out.val

\* C21: a load whose validation fails throws 'Configuration validation
\* failed' with the issues and leaves the configuration unloaded: a following
\* read still fails as not loaded, and a following load validates the
\* environment again.
C21_FailedLoadLeavesUnloaded ==
    /\ []FailedLoadStoresNothing
    /\ [][AfterFailedLoad]_vars

C21_Witness ==
    /\ proc.program = "client"
    /\ IsFailedLoad
    /\ config = Null
    /\ env.JWT_SECRET < MinSecretLength
    /\ configOp.out.msg =
          <<ValidationFailed, "JWT_SECRET: JWT_SECRET must be at least 32 characters">>

\* C22: with a valid environment the configuration is loaded before any
\* component reads it: once index.ts has run, the construction has not failed
\* with 'Configuration not loaded', the configuration is loaded, the
\* transport is connected and the server serves.
C22_ValidEnvironmentServes ==
    (IsIndex /\ HasRun /\ Issues(env) = <<>>) =>
        /\ ~Contains(proc.error, <<"Configuration not loaded. Call load() first.">>)
        /\ config # Null
        /\ proc.pc = "serving"
        /\ connected

(***************************************************************************)
(* saucerswap_execute_swap and saucerswap_add_liquidity, under Spec.       *)
(***************************************************************************)
Arg(key) == Get(request.args, key)

\* The quote the last call's arguments and downstream answers give.
QuoteOfCall == getQuote(Arg("tokenIn"), Arg("tokenOut"), Arg("amount"), answers)

\* A saucerswap_execute_swap call whose quote succeeds and whose recipient is
\* an address.
IsSwapOfQuoted ==
    /\ IsCall
    /\ request.name = "saucerswap_execute_swap"
    /\ request.args.kind = "mapping"
    /\ ~QuoteOfCall.threw
    /\ ~EncodeAddress(Arg("recipient")).threw

\* C23: saucerswap_execute_swap, given a quote that succeeds, yields a
\* success response whose text serialises the transaction (to the configured
\* router; value the input amount for the native input token, "0"
\* otherwise), the quote and the recipient, for every input token and every
\* log level.
C23_ExecuteSwapSucceeds ==
    IsSwapOfQuoted =>
        /\ IsSuccess
        /\ Text.json.transaction.to = RouterAddress
        /\ Text.json.transaction.value.s =
              (IF Arg("tokenIn") = ZeroAddress
               THEN ParseUnits(Arg("amount"), HbarDecimals) ELSE "0")
        /\ Text.json.quote = QuoteOfCall.val
        /\ Text.json.recipient = Arg("recipient")

\* The value executeSwap returned to the dispatcher.
IsSwapResult ==
    /\ IsCall
    /\ outcome.called = "executeSwap"
    /\ ~outcome.handler.threw

\* C24: in every saucerswap_execute_swap result the input amount encoded in
\* the swap transaction equals quote.tokenIn.amountWei, the amount in
\* smallest units the embedded quote was computed on, for every input token.
C24_SwapAmountMatchesQuote ==
    IsSwapResult =>
        outcome.handler.val.transaction.data.amountIn =
            outcome.handler.val.quote.tokenIn.amountWei.s

\* A saucerswap_add_liquidity call with two token addresses and two
\* well-formed amounts.
IsAddLiquidityOfGood ==
    /\ IsCall
    /\ request.name = "saucerswap_add_liquidity"
    /\ request.args.kind = "mapping"
    /\ Arg("tokenA") \in Addresses /\ Arg("tokenB") \in Addresses
    /\ Arg("amountA") \in DecimalStrings /\ Arg("amountB") \in DecimalStrings

\* C25: saucerswap_add_liquidity, given two token addresses and two
\* well-formed amounts, yields a success result whose transaction targets the
\* configured router with value "0" and encodes as recipient the operator
\* account of the SaucerSwap configuration, a defined value.
C25_AddLiquiditySucceeds ==
    IsAddLiquidityOfGood =>
        /\ IsSuccess
        /\ ConfigProperty("operatorId") # Undefined
        /\ Text.json.transaction.to = RouterAddress
        /\ Text.json.transaction.value = JsString("0")
        /\ Text.json.transaction.data.recipient = ConfigProperty("operatorId")

(***************************************************************************)
(* Required parameters, under Spec.                                        *)
(***************************************************************************)
\* The parameters the descriptor of a catalog operation lists as required.
Required(name) ==
    (CHOOSE d \in {ToolCatalog[i] : i \in 1..Len(ToolCatalog)} : d.name = name).required

\* A call of a catalog operation with a mapping that omits a required one.
OmitsRequired ==
    /\ IsCall
    /\ request.name \in ListedNames
    /\ request.args.kind = "mapping"
    /\ \E key \in Required(request.name) : key \notin DOMAIN request.args.fields

\* C26: a call of a catalog operation whose argument mapping omits a
\* parameter its descriptor lists as required never yields a success result.
C26_MissingRequiredNeverSucceeds ==
    OmitsRequired => ~IsSuccess

(***************************************************************************)
(* Standard output, under Spec.                                            *)
(***************************************************************************)
\* C27: every line written to standard output, the stream of the JSON-RPC
\* transport, is a JSON-RPC message: log lines of any level are never
\* written to it, on tools/list or during a tool call.
C27_StdoutCarriesOnlyMessages ==
    \A i \in 1..Len(stdout) : stdout[i].kind = "message"

(***************************************************************************)
(* The quote sources as shipped, under Spec.                               *)
(***************************************************************************)
IsBestRateCall == IsCall /\ outcome.called = "findBestRate"

QuoteSources(qs) == {qs[i].source : i \in 1..Len(qs)}

\* C28: every routed defi_find_best_rate call succeeds with dexCount 2 or 3:
\* HeliSwap and Pangolin always quote, a failing SaucerSwap quote is swallowed
\* and discarded (dexCount 2), and no call ends in 'No valid quotes found
\* from any DEX'.
C28_PlaceholdersNeverFail ==
    /\ IsBestRateCall =>
          /\ ~outcome.handler.threw
          /\ IsSuccess
          /\ BestRateResult.dexCount \in {2, 3}
          /\ BestRateResult.dexCount = Len(BestRateResult.allQuotes)
          /\ {"HeliSwap", "Pangolin"} \subseteq QuoteSources(BestRateResult.allQuotes)
          /\ BestRateResult.dexCount = 2 <=> QuoteOfCall.threw
          /\ BestRateResult.dexCount = 2 <=>
                "SaucerSwap" \notin QuoteSources(BestRateResult.allQuotes)
    /\ (IsCall /\ IsFailure(response)) => ~Contains(Text.tail, <<NoValidQuotes>>)

\* The router is down and the amount is no number: two quotes still.
C28_Witness ==
    /\ IsBestRateCall
    /\ request.args.fields = BadFields
    /\ ~answers.router.ok
    /\ IsSuccess
    /\ BestRateResult.dexCount = 2
    /\ BestRateResult.allQuotes[1].source = "HeliSwap"
    /\ BestRateResult.allQuotes[1].out.nan

(***************************************************************************)
(* Properties of the HBAR transfer, under Spec.                            *)
(***************************************************************************)
IsTransferCall == IsCall /\ request.name = "hedera_transfer_hbar"

\* The submitted transfer debits the amount from fromAccountId and credits
\* the same amount to toAccountId.
DebitsAndCredits ==
    /\ Len(submitted.transfers) = 2
    /\ submitted.transfers[1] =
           [accountId |-> Arg("fromAccountId"),
            amount |-> negated(HbarFromString(Arg("amount")))]
    /\ submitted.transfers[2] =
           [accountId |-> Arg("toAccountId"), amount |-> HbarFromString(Arg("amount"))]
    /\ submitted.transfers[1].amount.e = submitted.transfers[2].amount.e
    /\ submitted.transfers[1].amount.m + submitted.transfers[2].amount.m = 0
    /\ submitted.transfers[2].amount.m > 0

\* C29: the transaction hedera_transfer_hbar submits debits the amount from
\* fromAccountId and credits it to toAccountId, so that the deltas sum to
\* zero; a success result comes only after a receipt that reported Success,
\* and echoes fromAccountId, toAccountId, the amount and the memo as passed.
C29_TransferEchoesAsPassed ==
    IsTransferCall =>
        /\ (submitted # NoTransaction => DebitsAndCredits)
        /\ (IsSuccess =>
              /\ submitted # NoTransaction
              /\ Issued("receipt query") = 1
              /\ answers.ledger = "SUCCESS"
              /\ Text.json.fromAccountId = Arg("fromAccountId")
              /\ Text.json.toAccountId = Arg("toAccountId")
              /\ Text.json.amount = <<Arg("amount")>>
              /\ Text.json.memo = Arg("memo"))

====
